---- MODULE Spec2Model ----
(***************************************************************************)
(* Model of subscription_api/api.py: the whitelisted endpoints             *)
(* get_all_subscriptions, create_subscription, update_subscription and     *)
(* delete_subscription, run one request at a time against the document     *)
(* store (frappe.db).  The store is modelled as the connection's view `db` *)
(* (which holds uncommitted writes) and the durable state `committed`      *)
(* (what frappe.db.commit() has made permanent).                           *)
(***************************************************************************)
EXTENDS Integers, Sequences, FiniteSets, TLC

\* Number of requests in one behaviour.
MaxCalls == 3
\* Longest "plans" array passed to update_subscription.
MaxPlans == 2

(***************************************************************************)
(* Values.  Every scalar of a request is a string token.                   *)
(***************************************************************************)
\* key missing from the mapping: data.get(key) gives None, `key in data` is False
Absent == "<absent>"
\* Python None as stored in a document field
None == "None"

\* d.get(key): the value, or None when the key is missing
Get(v) == IF v = Absent THEN None ELSE v

\* `not value` for the scalars of a request (None and "" are falsy)
Falsy(v) == v \in {Absent, None, ""}

\* str.lower() on the tokens the requests use
Lower(s) ==
    CASE s = "Customer" -> "customer"
      [] s = "SUPPLIER" -> "supplier"
      [] s = "Employee" -> "employee"
      [] s = "True"     -> "true"
      [] s = "YES"      -> "yes"
      [] s = "None"     -> "none"
      [] s = "False"    -> "false"
      [] OTHER          -> s

\* str_to_bool(value): str(value).lower() in ("true", "1", "yes")
str_to_bool(value) == Lower(value) \in {"true", "1", "yes"}

(***************************************************************************)
(* The document store.                                                     *)
(***************************************************************************)
EmptyStore ==
    [Customer |-> {}, Supplier |-> {}, Item |-> {}, Plan |-> {},
     Subscription |-> {}, series |-> 0]

\* frappe.db.exists(doctype, name)
Exists(s, doctype, name) ==
    CASE doctype = "Customer"          -> name \in s.Customer
      [] doctype = "Supplier"          -> name \in s.Supplier
      [] doctype = "Item"              -> \E r \in s.Item : r.item_code = name
      [] doctype = "Subscription Plan" -> \E r \in s.Plan : r.name = name
      [] doctype = "Subscription"      -> \E r \in s.Subscription : r.name = name

\* the Subscription document named id (frappe.get_doc("Subscription", id))
GetSubscription(s, id) == CHOOSE r \in s.Subscription : r.name = id

\* the name the naming series gives the n-th Subscription
SubName(n) == "SUB-" \o ToString(n)

\* doc.insert() of a Customer, Supplier, Item or Subscription Plan document
Insert(s, doctype, doc) ==
    CASE doctype = "Customer"          -> [s EXCEPT !.Customer = @ \cup {doc}]
      [] doctype = "Supplier"          -> [s EXCEPT !.Supplier = @ \cup {doc}]
      [] doctype = "Item"              -> [s EXCEPT !.Item = @ \cup {doc}]
      [] doctype = "Subscription Plan" -> [s EXCEPT !.Plan = @ \cup {doc}]

\* subscription.insert(): the naming series names the new document
InsertSubscription(s, doc) ==
    [s EXCEPT !.series = @ + 1,
              !.Subscription = @ \cup {[doc EXCEPT !.name = SubName(s.series + 1)]}]

\* variant: the commit is left out
CommitNothing(s, c) == c

\* frappe.db.commit(): the durable state becomes the connection's view
Commit(s, c) == s

(***************************************************************************)
(* Requests.                                                               *)
(***************************************************************************)
PartyTypes == {"Customer", "SUPPLIER", "Employee"}
PlanNames  == {"n1", "n2"}
ItemCodes  == {"i1", "i2"}
EndDate    == "2024-12-31"
\* the order of the ISO dates used
DateRank(d) == CASE d = "2024-01-01" -> 1 [] d = "2024-02-01" -> 2 [] OTHER -> 3

DefaultInvoiceAt == "End of the current subscription period"
OtherInvoiceAt   == "Beginning of the current subscription period"

\* a plan mapping; all three keys missing stands for {} and for no "plan" key
PlanObj(n, i, q) == [name |-> n, item_code |-> i, quantity |-> q]
NoPlan == PlanObj(Absent, Absent, Absent)

CreateData(enc, pt, p, sd, ed, pl, gia, f1, f2, f3) ==
    [encoding |-> enc, party_type |-> pt, party |-> p, start_date |-> sd,
     end_date |-> ed, plan |-> pl, generate_invoice_at |-> gia,
     trial_period_start |-> Absent, trial_period_end |-> Absent,
     days_until_due |-> Absent,
     generate_new_invoices_past_due_date |-> f1, cancel_at_period_end |-> f2,
     submit_invoice |-> f3]

\* a well-formed request
CreateBase ==
    CreateData("dict", "Customer", "p1", "2024-01-01", EndDate,
               PlanObj("n1", "i1", Absent), Absent, Absent, Absent, Absent)

\* a missing or empty value for a required field
BlankValue(field) ==
    CASE field = "party"      -> ""
      [] field = "start_date" -> None
      [] OTHER                -> Absent

\* request d with the required fields in M missing or empty
Blank(d, M) ==
    [f \in DOMAIN d |->
        IF f \in M THEN (IF f = "plan" THEN NoPlan ELSE BlankValue(f)) ELSE d[f]]

\* requests with one, two or all of the required fields missing
CreateInputsMissing ==
    { Blank(CreateBase, M) :
        M \in { N \in SUBSET {"party_type", "party", "start_date", "end_date", "plan"} :
                  Cardinality(N) \in {1, 2, 5} } }

\* requests that vary the party
CreateInputsParty ==
    { [CreateBase EXCEPT !.party_type = pt] : pt \in PartyTypes }

\* requests that vary the plan's name or its item_code, also to a missing one
CreateInputsPlan ==
    { [CreateBase EXCEPT !.plan = PlanObj(n, "i1", Absent)] :
        n \in PlanNames \cup {Absent} }
    \cup { [CreateBase EXCEPT !.plan = PlanObj("n1", i, Absent)] :
             i \in ItemCodes \cup {Absent} }
    \cup { [CreateBase EXCEPT !.plan = PlanObj(Absent, Absent, "2")] }

\* requests that vary the encoding, the start date and the optional fields
CreateInputsOptional ==
    { [CreateBase EXCEPT !.encoding = "json",
                         !.start_date = "2024-02-01",
                         !.plan = PlanObj("n1", "i1", "2"),
                         !.generate_invoice_at = OtherInvoiceAt,
                         !.generate_new_invoices_past_due_date = "True",
                         !.cancel_at_period_end = "no",
                         !.submit_invoice = "1"],
      [CreateBase EXCEPT !.encoding = "badjson"] }

CreateInputs ==
    CreateInputsMissing \cup CreateInputsParty \cup CreateInputsPlan
        \cup CreateInputsOptional

UpdateData(enc, id, co, gia, f1, f2, f3, pls) ==
    [encoding |-> enc, subscription_id |-> id, company |-> co,
     generate_invoice_at |-> gia,
     generate_new_invoices_past_due_date |-> f1, cancel_at_period_end |-> f2,
     submit_invoice |-> f3, plans |-> pls]

\* a request that changes nothing; a missing "plans" key reads as []
UpdateBase(id) ==
    UpdateData("dict", id, Absent, Absent, Absent, Absent, Absent, <<>>)

ScalarKeys ==
    {"company", "generate_invoice_at", "generate_new_invoices_past_due_date",
     "cancel_at_period_end", "submit_invoice"}

\* values for the scalar keys: one set that switches the flags on, one off
ScalarValue(key, on) ==
    CASE key = "company" -> IF on THEN "c1" ELSE "c2"
      [] key = "generate_invoice_at" ->
            IF on THEN OtherInvoiceAt ELSE DefaultInvoiceAt
      [] key = "generate_new_invoices_past_due_date" ->
            IF on THEN "True" ELSE "False"
      [] key = "cancel_at_period_end" -> IF on THEN "YES" ELSE "no"
      [] key = "submit_invoice" -> IF on THEN "1" ELSE "0"

\* requests with no, one or all scalar keys present
UpdateInputsScalars ==
    { [f \in DOMAIN UpdateBase("SUB-1") |->
          IF f \in K THEN ScalarValue(f, on) ELSE UpdateBase("SUB-1")[f]] :
        on \in BOOLEAN,
        K \in {{}, {"company"}, {"submit_invoice"}, ScalarKeys} }
    \cup { [UpdateBase("SUB-2") EXCEPT !.company = "c1"] }

\* entries of a "plans" array
PlanEntries == { PlanObj("n1", "i1", Absent), PlanObj("n2", "i2", "3") }

PlanArrays == UNION { [1..n -> PlanEntries] : n \in 0..MaxPlans }

\* requests that replace the plan lines
UpdateInputsPlans ==
    { [UpdateBase("SUB-1") EXCEPT !.encoding = "json", !.plans = pls] :
        pls \in PlanArrays }

\* requests with a missing or unknown subscription_id, that do not parse, or
\* with a plan entry without name or item_code
UpdateInputsInvalid ==
    { UpdateBase(""), UpdateBase("SUB-9"),
      [UpdateBase("SUB-1") EXCEPT !.encoding = "badjson"],
      [UpdateBase("SUB-1") EXCEPT !.plans = << PlanObj(Absent, "i1", Absent) >>],
      [UpdateBase("SUB-1") EXCEPT
          !.plans = << PlanObj("n2", "i2", "3"), PlanObj("n2", Absent, "2") >>] }

UpdateInputs == UpdateInputsScalars \cup UpdateInputsPlans \cup UpdateInputsInvalid

DeleteInputs == {"SUB-1", "SUB-9", ""}

(***************************************************************************)
(* State.                                                                  *)
(***************************************************************************)
VARIABLES
    db,         \* the connection's view of the store (with uncommitted writes)
    committed,  \* the durable store
    pc,         \* "idle", a step of the running call, or "done"
    op,         \* the endpoint of the running (or last) call
    data,       \* its argument
    loc,        \* its local variables
    result,     \* what it returned
    logged,     \* the title it passed to frappe.log_error
    exc,        \* str(e) of the exception raised in the call, "" when none was
    rows,       \* what get_all_subscriptions returned
    calls,      \* requests made so far
    pre,        \* history: the store when the call started
    inserted    \* history: <<doctype, name>> inserted by completed steps of the call

vars ==
    <<db, committed, pc, op, data, loc, result, logged, exc, rows, calls, pre,
      inserted>>

NoData   == [none |-> TRUE]
NoResult == [status |-> "none"]
NoDoc    == [name |-> ""]
NoLoc    == [item_created |-> FALSE, plan_created |-> FALSE,
             updated_plans |-> <<>>, i |-> 1, subscription |-> NoDoc]

Init ==
    /\ db = EmptyStore
    /\ committed = EmptyStore
    /\ pc = "idle"
    /\ op = "none"
    /\ data = NoData
    /\ loc = NoLoc
    /\ result = NoResult
    /\ logged = ""
    /\ exc = ""
    /\ rows = <<>>
    /\ calls = 0
    /\ pre = EmptyStore
    /\ inserted = {}

\* a request arrives
Begin(name, d) ==
    /\ pc = "idle"
    /\ calls < MaxCalls
    /\ calls' = calls + 1
    /\ op' = name
    /\ data' = d
    /\ pre' = committed

\* The call hands res to the host with view s and durable state c.  The host then
\* ends the request: it commits what is still uncommitted or rolls it back.
Deliver(res, s, c) ==
    /\ result' = res
    /\ pc' = "done"
    /\ \E hostCommits \in BOOLEAN :
         LET final == IF hostCommits THEN s ELSE c
         IN  db' = final /\ committed' = final

\* a return statement of the try block
Returns(res, s, c) ==
    /\ Deliver(res, s, c)
    /\ UNCHANGED <<logged, exc>>

\* the call goes on to step p
Goto(p, s, c) ==
    /\ pc' = p
    /\ db' = s
    /\ committed' = c
    /\ UNCHANGED <<result, logged, exc>>

ErrorTitle(name) ==
    CASE name = "create" -> "Create Subscription API Error"
      [] name = "update" -> "Update Subscription API Error"
      [] name = "delete" -> "Delete Subscription API Error"

\* str(e) of the exception a store operation raises in step p
ExcMsg(p) == "exception in " \o p

ErrorResult(msg) == [status |-> "error", message |-> msg]

\* return {"status": "error", "message": str(e)}
ExceptionResult(e) == [status |-> "error", message |-> e]

\* except Exception as e: log_error(...); return ...
Handler(name, e, s, c) ==
    /\ Deliver(ExceptionResult(e), s, c)
    /\ logged' = ErrorTitle(name)
    /\ exc' = e

\* variant: only create_subscription has the try block
TryCoversCreate(name) == name = "create"

\* the endpoints whose body is a try block with `except Exception`
TryCovers(name) == name \in {"create", "update", "delete"}

\* the exception leaves the endpoint; the host rolls the request back
Propagate(e, c) ==
    /\ pc' = "raised"
    /\ exc' = e
    /\ db' = c
    /\ committed' = c
    /\ UNCHANGED <<result, logged>>

\* step p of endpoint name raises
Throw(name, p, s, c) ==
    IF TryCovers(name) THEN Handler(name, ExcMsg(p), s, c)
    ELSE Propagate(ExcMsg(p), c)

(***************************************************************************)
(* create_subscription                                                     *)
(***************************************************************************)
RequiredFields == <<"party_type", "party", "start_date", "end_date", "plan">>

\* `not data.get(field)`
FieldMissing(d, field) ==
    IF field = "plan" THEN d.plan = NoPlan ELSE Falsy(d[field])

\* variant: the loop reports the last missing field
RECURSIVE FirstMissingFromEnd(_, _)
FirstMissingFromEnd(d, k) ==
    IF k > Len(RequiredFields) THEN ""
    ELSE IF FirstMissingFromEnd(d, k + 1) # "" THEN FirstMissingFromEnd(d, k + 1)
    ELSE IF FieldMissing(d, RequiredFields[k]) THEN RequiredFields[k]
    ELSE ""

\* the loop over required_fields: the first missing field, or "" when none is
RECURSIVE FirstMissing(_, _)
FirstMissing(d, k) ==
    IF k > Len(RequiredFields) THEN ""
    ELSE IF FieldMissing(d, RequiredFields[k]) THEN RequiredFields[k]
    ELSE FirstMissing(d, k + 1)

\* the doctype of the party to create, "" when party_type is neither
PartyDoctype(party_type) ==
    IF Lower(party_type) = "customer" THEN "Customer"
    ELSE IF Lower(party_type) = "supplier" THEN "Supplier"
    ELSE ""

\* `not plan_name or not item_code`
PlanInvalid(plan_data) == Falsy(plan_data.name) \/ Falsy(plan_data.item_code)

\* plan_data.get("quantity", 1)
Quantity(plan_data) ==
    IF plan_data.quantity = Absent THEN "1" ELSE plan_data.quantity

NewItem(plan_data) ==
    [item_code |-> plan_data.item_code, item_name |-> plan_data.name]

NewPlan(plan_data) ==
    [name |-> plan_data.name, item |-> plan_data.item_code]

NewSubscription(d) ==
    [name |-> "",
     party_type |-> d.party_type,
     party |-> d.party,
     company |-> None,
     generate_invoice_at |->
         IF d.generate_invoice_at = Absent THEN DefaultInvoiceAt
         ELSE d.generate_invoice_at,
     start_date |-> d.start_date,
     end_date |-> d.end_date,
     trial_period_start |-> Get(d.trial_period_start),
     trial_period_end |-> Get(d.trial_period_end),
     days_until_due |-> Get(d.days_until_due),
     generate_new_invoices_past_due_date |->
         str_to_bool(Get(d.generate_new_invoices_past_due_date)),
     cancel_at_period_end |-> str_to_bool(Get(d.cancel_at_period_end)),
     submit_invoice |-> str_to_bool(Get(d.submit_invoice)),
     plans |-> << [plan |-> d.plan.name, qty |-> Quantity(d.plan)] >>]

\* variant: the two flags are swapped
CreateSuccessSwapped(name, l) ==
    [status |-> "success", subscription_id |-> name,
     item_created |-> l.plan_created, plan_created |-> l.item_created]

CreateSuccess(name, l) ==
    [status |-> "success", subscription_id |-> name,
     item_created |-> l.item_created, plan_created |-> l.plan_created]

\* lines 51-61: parse the argument, check the required fields
CreateSubscription ==
    \E d \in CreateInputs :
        /\ Begin("create", d)
        /\ rows' = <<>>
        /\ loc' = NoLoc
        /\ inserted' = {}
        /\ IF d.encoding = "badjson"
           THEN Throw("create", "parse_json", db, committed)
           ELSE IF FirstMissing(d, 1) # ""
           THEN Returns(ErrorResult("Missing required field: " \o FirstMissing(d, 1)),
                        db, committed)
           ELSE Goto("c_party", db, committed)

\* lines 93-103: extract the plan and check it
CreateCheckPlan(s, c) ==
    IF PlanInvalid(data.plan)
    THEN Returns(ErrorResult("Plan must include 'name' and 'item_code'."), s, c)
    ELSE Goto("c_item", s, c)

\* lines 63-103: create the Customer or Supplier if missing, then check the plan
CreateParty ==
    /\ pc = "c_party"
    /\ UNCHANGED <<op, data, calls, pre, rows, loc>>
    /\ LET doctype == PartyDoctype(data.party_type) IN
       IF doctype # "" /\ ~Exists(db, doctype, data.party)
       THEN LET s1 == Insert(db, doctype, data.party) IN
            \/ /\ inserted' = inserted \cup {<<doctype, data.party>>}
               /\ CreateCheckPlan(s1, Commit(s1, committed))
            \/ /\ UNCHANGED inserted
               /\ Throw("create", "commit", s1, committed)
       ELSE /\ UNCHANGED inserted
            /\ CreateCheckPlan(db, committed)

\* lines 108-124: create the Item if missing
CreateItem ==
    /\ pc = "c_item"
    /\ UNCHANGED <<op, data, calls, pre, rows>>
    /\ IF ~Exists(db, "Item", data.plan.item_code)
       THEN LET s1 == Insert(db, "Item", NewItem(data.plan)) IN
            \/ /\ inserted' = inserted \cup {<<"Item", data.plan.item_code>>}
               /\ loc' = [loc EXCEPT !.item_created = TRUE]
               /\ Goto("c_plan", s1, Commit(s1, committed))
            \/ /\ UNCHANGED <<inserted, loc>>
               /\ Throw("create", "commit", s1, committed)
       ELSE /\ UNCHANGED <<inserted, loc>>
            /\ Goto("c_plan", db, committed)

\* lines 126-147: create the Subscription Plan if missing
CreatePlan ==
    /\ pc = "c_plan"
    /\ UNCHANGED <<op, data, calls, pre, rows>>
    /\ IF ~Exists(db, "Subscription Plan", data.plan.name)
       THEN LET s1 == Insert(db, "Subscription Plan", NewPlan(data.plan)) IN
            \/ /\ inserted' = inserted \cup {<<"Subscription Plan", data.plan.name>>}
               /\ loc' = [loc EXCEPT !.plan_created = TRUE]
               /\ Goto("c_sub", s1, Commit(s1, committed))
            \/ /\ UNCHANGED <<inserted, loc>>
               /\ Throw("create", "commit", s1, committed)
       ELSE /\ UNCHANGED <<inserted, loc>>
            /\ Goto("c_sub", db, committed)

\* lines 149-180: insert the Subscription and return
CreateSub ==
    /\ pc = "c_sub"
    /\ UNCHANGED <<op, data, calls, pre, rows, inserted, loc>>
    /\ LET s1 == InsertSubscription(db, NewSubscription(data)) IN
       \/ Returns(CreateSuccess(SubName(s1.series), loc),
                  s1, Commit(s1, committed))
       \/ Throw("create", "commit", s1, committed)

(***************************************************************************)
(* delete_subscription                                                     *)
(***************************************************************************)
\* sub_doc.delete()
DeleteDoc(s, id) ==
    [s EXCEPT !.Subscription = {r \in @ : r.name # id}]

DeleteSuccess(id) ==
    [status |-> "success",
     message |-> "Subscription '" \o id \o "' deleted successfully"]

NotFound(id) == ErrorResult("Subscription '" \o id \o "' does not exist")

\* variant: the existence check is left out
DeleteTargetNeverMissing(s, id) == FALSE

\* line 196: `not frappe.db.exists("Subscription", subscription_id)`
DeleteTargetMissing(s, id) == ~Exists(s, "Subscription", id)

\* lines 192-200: check the identifier
DeleteSubscription ==
    \E id \in DeleteInputs :
        /\ Begin("delete", [subscription_id |-> id])
        /\ rows' = <<>>
        /\ loc' = NoLoc
        /\ inserted' = {}
        /\ IF Falsy(id)
           THEN Returns(ErrorResult("Missing subscription_id"), db, committed)
           ELSE \/ Throw("delete", "exists", db, committed)
                \/ IF DeleteTargetMissing(db, id)
                   THEN Returns(NotFound(id), db, committed)
                   ELSE Goto("d_delete", db, committed)

\* lines 202-210: load the document, delete it, commit
DeleteDocument ==
    /\ pc = "d_delete"
    /\ UNCHANGED <<op, data, calls, pre, rows, inserted, loc>>
    /\ LET s1 == DeleteDoc(db, data.subscription_id) IN
       \/ Returns(DeleteSuccess(data.subscription_id),
                  s1, Commit(s1, committed))
       \/ Throw("delete", "commit", s1, committed)

(***************************************************************************)
(* update_subscription                                                     *)
(***************************************************************************)
\* variant: every scalar field is assigned from data.get(key)
ApplyScalarsUnconditional(sub, d) ==
    [sub EXCEPT
        !.company = Get(d.company),
        !.generate_invoice_at = Get(d.generate_invoice_at),
        !.generate_new_invoices_past_due_date =
            str_to_bool(Get(d.generate_new_invoices_past_due_date)),
        !.cancel_at_period_end = str_to_bool(Get(d.cancel_at_period_end)),
        !.submit_invoice = str_to_bool(Get(d.submit_invoice))]

\* lines 241-258: the five scalar fields, each set only when its key is present
ApplyScalars(sub, d) ==
    [sub EXCEPT
        !.company = IF d.company # Absent THEN d.company ELSE @,
        !.generate_invoice_at =
            IF d.generate_invoice_at # Absent THEN d.generate_invoice_at ELSE @,
        !.generate_new_invoices_past_due_date =
            IF d.generate_new_invoices_past_due_date # Absent
            THEN str_to_bool(d.generate_new_invoices_past_due_date) ELSE @,
        !.cancel_at_period_end =
            IF d.cancel_at_period_end # Absent
            THEN str_to_bool(d.cancel_at_period_end) ELSE @,
        !.submit_invoice =
            IF d.submit_invoice # Absent
            THEN str_to_bool(d.submit_invoice) ELSE @]

\* variant: the plan lines are replaced also by an empty list
ReplacePlansAlways(sub, updated_plans) == [sub EXCEPT !.plans = updated_plans]

\* variant: the old lines are not cleared
ReplacePlansKeepOld(sub, updated_plans) ==
    IF updated_plans # <<>> THEN [sub EXCEPT !.plans = @ \o updated_plans] ELSE sub

\* lines 314-318: the plan lines are replaced when updated_plans is not empty
ReplacePlans(sub, updated_plans) ==
    IF updated_plans # <<>> THEN [sub EXCEPT !.plans = updated_plans] ELSE sub

\* subscription.save()
Save(s, doc) ==
    [s EXCEPT !.Subscription = {r \in @ : r.name # doc.name} \cup {doc}]

UpdateSuccess(id, updated_plans) ==
    [status |-> "success",
     message |-> "Subscription '" \o id \o "' updated successfully",
     updated_plans |-> updated_plans]

\* lines 261-270: the loop reaches entry l.i of data["plans"]
UpdateNextEntry(l, s, c) ==
    /\ loc' = l
    /\ IF l.i > Len(data'.plans)
       THEN Goto("u_save", s, c)
       ELSE IF PlanInvalid(data'.plans[l.i])
       THEN Returns(ErrorResult("Each plan must include 'name' and 'item_code'"),
                    s, c)
       ELSE Goto("u_item", s, c)

\* lines 225-270: parse, check the identifier, load the document, set the scalars
UpdateSubscription ==
    \E d \in UpdateInputs :
        /\ Begin("update", d)
        /\ rows' = <<>>
        /\ inserted' = {}
        /\ IF d.encoding = "badjson"
           THEN loc' = NoLoc /\ Throw("update", "parse_json", db, committed)
           ELSE IF Falsy(d.subscription_id)
           THEN /\ loc' = NoLoc
                /\ Returns(ErrorResult("Missing 'subscription_id'"), db, committed)
           ELSE \/ loc' = NoLoc /\ Throw("update", "exists", db, committed)
                \/ IF ~Exists(db, "Subscription", d.subscription_id)
                   THEN /\ loc' = NoLoc
                        /\ Returns(NotFound(d.subscription_id), db, committed)
                   ELSE UpdateNextEntry(
                            [NoLoc EXCEPT !.subscription =
                                ApplyScalars(GetSubscription(db, d.subscription_id), d)],
                            db, committed)

\* lines 272-287: create the entry's Item if missing
UpdateItem ==
    /\ pc = "u_item"
    /\ UNCHANGED <<op, data, calls, pre, rows, loc>>
    /\ LET plan_data == data.plans[loc.i] IN
       IF ~Exists(db, "Item", plan_data.item_code)
       THEN LET s1 == Insert(db, "Item", NewItem(plan_data)) IN
            \/ /\ inserted' = inserted \cup {<<"Item", plan_data.item_code>>}
               /\ Goto("u_plan", s1, Commit(s1, committed))
            \/ /\ UNCHANGED inserted
               /\ Throw("update", "commit", s1, committed)
       ELSE /\ UNCHANGED inserted
            /\ Goto("u_plan", db, committed)

\* line 312: updated_plans.append({"plan": plan_name, "qty": quantity})
Appended(l, plan_data) ==
    [l EXCEPT !.updated_plans =
                  Append(@, [plan |-> plan_data.name, qty |-> Quantity(plan_data)]),
              !.i = @ + 1]

\* lines 289-312: create the entry's Subscription Plan if missing, note the line
UpdatePlan ==
    /\ pc = "u_plan"
    /\ UNCHANGED <<op, data, calls, pre, rows>>
    /\ LET plan_data == data.plans[loc.i] IN
       IF ~Exists(db, "Subscription Plan", plan_data.name)
       THEN LET s1 == Insert(db, "Subscription Plan", NewPlan(plan_data)) IN
            \/ /\ inserted' = inserted \cup {<<"Subscription Plan", plan_data.name>>}
               /\ UpdateNextEntry(Appended(loc, plan_data), s1, Commit(s1, committed))
            \/ /\ UNCHANGED <<inserted, loc>>
               /\ Throw("update", "commit", s1, committed)
       ELSE /\ UNCHANGED inserted
            /\ UpdateNextEntry(Appended(loc, plan_data), db, committed)

\* lines 314-327: replace the plan lines, save, commit, return
UpdateSave ==
    /\ pc = "u_save"
    /\ UNCHANGED <<op, data, calls, pre, rows, inserted, loc>>
    /\ LET s1 == Save(db, ReplacePlans(loc.subscription, loc.updated_plans)) IN
       \/ Returns(UpdateSuccess(data.subscription_id, loc.updated_plans),
                  s1, Commit(s1, committed))
       \/ Throw("update", "commit", s1, committed)

(***************************************************************************)
(* get_all_subscriptions                                                   *)
(***************************************************************************)
\* variant: ORDER BY start_date ASC
FirstRowsAscending(S) ==
    {r \in S : \A q \in S : DateRank(q.start_date) >= DateRank(r.start_date)}

\* ORDER BY start_date DESC: the rows of S that may come first
FirstRows(S) ==
    {r \in S : \A q \in S : DateRank(q.start_date) <= DateRank(r.start_date)}

\* the orders in which the database may return the rows of S
RECURSIVE OrderBy(_)
OrderBy(S) ==
    IF S = {} THEN {<<>>}
    ELSE UNION { { <<r>> \o rest : rest \in OrderBy(S \ {r}) } : r \in FirstRows(S) }

\* lines 5-13
GetAllSubscriptions ==
    /\ Begin("get_all", NoData)
    /\ UNCHANGED <<loc, inserted>>
    /\ \/ /\ \E r \in OrderBy(db.Subscription) : rows' = r
          /\ pc' = "done"
          /\ UNCHANGED <<db, committed, result, logged, exc>>
       \/ /\ rows' = <<>>
          /\ Throw("get_all", "get_all", db, committed)

InFlight ==
    {"c_party", "c_item", "c_plan", "c_sub", "d_delete", "u_item", "u_plan", "u_save"}

\* a store operation of the current step (exists, get_doc, insert, save, delete)
\* raises before the step has written anything
Raise ==
    /\ pc \in InFlight
    /\ UNCHANGED <<op, data, calls, pre, rows, inserted, loc>>
    /\ Throw(op, pc, db, committed)

\* the response is delivered; the next request can start
Finish ==
    /\ pc \in {"done", "raised"}
    /\ pc' = "idle"
    /\ data' = NoData
    /\ result' = NoResult
    /\ loc' = NoLoc
    /\ logged' = ""
    /\ exc' = ""
    /\ inserted' = {}
    /\ pre' = committed
    /\ op' = "none"
    /\ rows' = <<>>
    /\ UNCHANGED <<db, committed, calls>>

Next ==
    \/ CreateSubscription
    \/ CreateParty
    \/ CreateItem
    \/ CreatePlan
    \/ CreateSub
    \/ DeleteSubscription
    \/ DeleteDocument
    \/ UpdateSubscription
    \/ UpdateItem
    \/ UpdatePlan
    \/ UpdateSave
    \/ GetAllSubscriptions
    \/ Raise
    \/ Finish

Spec == Init /\ [][Next]_vars

(***************************************************************************)
(* Properties                                                              *)
(***************************************************************************)
\* a required field is absent or empty in request d
IsMissing(d, field) ==
    IF field = "plan" THEN d.plan = NoPlan ELSE d[field] \in {Absent, None, ""}

Finished(name) == pc = "done" /\ op = name

Succeeded(name) == Finished(name) /\ result.status = "success"

\* the Subscription named id in store s
Sub(s, id) == CHOOSE r \in s.Subscription : r.name = id

\* the (plan, qty) rows a "plans" array stands for
RowsOf(pls) ==
    [k \in 1..Len(pls) |->
        [plan |-> pls[k].name,
         qty |-> IF pls[k].quantity = Absent THEN "1" ELSE pls[k].quantity]]

\* C1: a create_subscription call with a required field absent or empty returns
\* an error naming the first missing field and leaves the store as it was.
C1_MissingFieldRejected ==
    (/\ Finished("create")
     /\ data.encoding # "badjson"
     /\ \E k \in 1..Len(RequiredFields) : IsMissing(data, RequiredFields[k]))
    => /\ result.status = "error"
       /\ \E k \in 1..Len(RequiredFields) :
            /\ IsMissing(data, RequiredFields[k])
            /\ \A j \in 1..(k - 1) : ~IsMissing(data, RequiredFields[j])
            /\ result.message = "Missing required field: " \o RequiredFields[k]
       /\ committed = pre
       /\ db = pre

C1_Witness ==
    /\ Finished("create")
    /\ data.encoding # "badjson"
    /\ ~IsMissing(data, "party_type")
    /\ IsMissing(data, "party")
    /\ IsMissing(data, "plan")
    /\ result.status = "error"
    /\ pre.Subscription # {}

\* C2: on success item_created (plan_created) is true exactly when no Item with
\* the plan's item_code (no Subscription Plan with the plan's name) existed before
\* the call; a new one is then in the store, and none is added otherwise.
C2_CreatedFlags ==
    Succeeded("create") =>
        LET hadItem == \E r \in pre.Item : r.item_code = data.plan.item_code
            hadPlan == \E r \in pre.Plan : r.name = data.plan.name
        IN  /\ result.item_created = ~hadItem
            /\ result.plan_created = ~hadPlan
            /\ \E r \in committed.Item : r.item_code = data.plan.item_code
            /\ \E r \in committed.Plan : r.name = data.plan.name
            /\ hadItem => committed.Item = pre.Item
            /\ hadPlan => committed.Plan = pre.Plan

C2_Witness ==
    /\ Succeeded("create")
    /\ result.item_created = FALSE
    /\ result.plan_created = FALSE
    /\ committed.Item = pre.Item
    /\ committed.Plan = pre.Plan

\* every Subscription of s has a plan line, every line names a Subscription Plan
\* of s, every Subscription Plan of s links to an Item of s
WellReferenced(s) ==
    /\ \A r \in s.Subscription :
         /\ Len(r.plans) >= 1
         /\ \A k \in 1..Len(r.plans) : \E q \in s.Plan : q.name = r.plans[k].plan
    /\ \A q \in s.Plan : \E i \in s.Item : i.item_code = q.item

\* C3: from an empty store, after any calls (failing ones included) every
\* Subscription has a plan line, every plan line names an existing Subscription
\* Plan and every Subscription Plan links to an existing Item.
C3_ReferencesResolve == WellReferenced(committed) /\ WellReferenced(db)

C3_Witness ==
    /\ Succeeded("update")
    /\ data.plans = <<>>
    /\ Len(Sub(committed, data.subscription_id).plans) >= 1
    /\ Sub(committed, data.subscription_id).plans = Sub(pre, data.subscription_id).plans

\* C4 as stated: a successful update leaves exactly the rows of the provided
\* array as the plan lines, an empty array included, and returns them.
C4_PlansReplacedByAnyArray ==
    Succeeded("update") =>
        /\ Sub(committed, data.subscription_id).plans = RowsOf(data.plans)
        /\ result.updated_plans = Sub(committed, data.subscription_id).plans

\* C4 amended: a successful update with a non-empty array leaves exactly its rows
\* as the plan lines and returns them; with an empty array the plan lines stay as
\* they were and updated_plans is empty.
C4_PlansReplacedByNonEmptyArray ==
    Succeeded("update") =>
        LET old == Sub(pre, data.subscription_id)
            new == Sub(committed, data.subscription_id)
        IN  IF data.plans # <<>>
            THEN /\ new.plans = RowsOf(data.plans)
                 /\ result.updated_plans = new.plans
            ELSE /\ new.plans = old.plans
                 /\ result.updated_plans = <<>>

C4_Witness ==
    /\ Succeeded("update")
    /\ Len(data.plans) = 2
    /\ data.plans[1] # data.plans[2]
    /\ Sub(pre, data.subscription_id).plans # Sub(committed, data.subscription_id).plans
    /\ Sub(committed, data.subscription_id).plans[2].qty = "1"

\* C5: delete_subscription with an empty identifier or one that names no
\* Subscription returns an error with a message and changes nothing.
C5_DeleteMissingRejected ==
    (/\ pc \in {"done", "raised"}
     /\ op = "delete"
     /\ \/ data.subscription_id = ""
        \/ ~\E r \in pre.Subscription : r.name = data.subscription_id)
    => /\ pc = "done"
       /\ result.status = "error"
       /\ result.message # ""
       /\ committed = pre
       /\ db = pre

C5_Witness ==
    /\ Finished("delete")
    /\ data.subscription_id = "SUB-9"
    /\ pre.Subscription # {}
    /\ exc = ""
    /\ result.status = "error"

\* C6: an exception raised in create_subscription, update_subscription or
\* delete_subscription never leaves the call: the call returns status "error"
\* with the exception's message.
C6_ExceptionsBecomeErrors ==
    (op \in {"create", "update", "delete"} /\ exc # "")
    => /\ pc = "done"
       /\ result = [status |-> "error", message |-> exc]

C6_Witness ==
    /\ Finished("update")
    /\ exc # ""
    /\ inserted # {}
    /\ result.status = "error"

\* C7: every conditional insert is committed before the next step starts, and a
\* call of create_subscription or update_subscription that returns an error
\* leaves every record its earlier steps inserted in the store.
C7_InsertsSurviveFailure ==
    /\ pc \in InFlight => db = committed
    /\ (pc = "done" /\ op \in {"create", "update"} /\ result.status = "error")
       => \A e \in inserted : Exists(committed, e[1], e[2]) /\ ~Exists(pre, e[1], e[2])

C7_Witness ==
    /\ Finished("create")
    /\ result.status = "error"
    /\ Cardinality(inserted) = 3
    /\ committed.Subscription = pre.Subscription

\* C8: get_all_subscriptions returns every Subscription exactly once, and
\* start_date never increases along the result.
C8_ListingOrdered ==
    Finished("get_all") =>
        /\ Len(rows) = Cardinality(committed.Subscription)
        /\ {rows[k] : k \in 1..Len(rows)} = committed.Subscription
        /\ \A k \in 1..(Len(rows) - 1) :
             DateRank(rows[k].start_date) >= DateRank(rows[k + 1].start_date)

C8_Witness ==
    /\ Finished("get_all")
    /\ Len(rows) = 2
    /\ rows[1].name = "SUB-2"
    /\ DateRank(rows[1].start_date) > DateRank(rows[2].start_date)

\* C9: a successful update changes no other Subscription, changes in the named
\* one only the five scalar fields and the plan lines, and leaves a scalar field
\* whose key is missing from the request as it was.
C9_UpdateFrame ==
    Succeeded("update") =>
        LET id  == data.subscription_id
            old == Sub(pre, id)
            new == Sub(committed, id)
        IN  /\ {r \in committed.Subscription : r.name # id}
                 = {r \in pre.Subscription : r.name # id}
            /\ \A f \in DOMAIN old \ (ScalarKeys \cup {"plans"}) : new[f] = old[f]
            /\ \A k \in ScalarKeys : data[k] = Absent => new[k] = old[k]

C9_Witness ==
    /\ Succeeded("update")
    /\ Cardinality(pre.Subscription) = 2
    /\ data.company # Absent
    /\ data.submit_invoice = Absent
    /\ Sub(pre, data.subscription_id).submit_invoice = TRUE
    /\ Sub(committed, data.subscription_id).company = data.company

\* C10: create_subscription checks the plan before any side effect: a call whose
\* required fields are present but whose plan lacks name or item_code returns the
\* plan validation error and leaves the store as it was.
C10_PlanCheckedBeforeSideEffects ==
    (/\ Finished("create")
     /\ exc = ""
     /\ \A k \in 1..Len(RequiredFields) : ~IsMissing(data, RequiredFields[k])
     /\ \/ data.plan.name \in {Absent, None, ""}
        \/ data.plan.item_code \in {Absent, None, ""})
    => /\ result = ErrorResult("Plan must include 'name' and 'item_code'.")
       /\ committed = pre

====
